---- MODULE Spec2Model ----
(***************************************************************************)
(* Model of app/utils.ts of starchart: the redirect sanitizer, the         *)
(* per-user domain name builders/parser and the BullMQ children-values     *)
(* filter.  Strings are sequences of one-character strings; a JavaScript   *)
(* value is a record [type, chars]; an outcome of a call is a record       *)
(* [kind, value] with kind "return", "throw" or "pending".                 *)
(***************************************************************************)
EXTENDS Naturals, Integers, Sequences, FiniteSets

VARIABLES ROOT_DOMAIN, pc, args, ret, job

vars == <<ROOT_DOMAIN, pc, args, ret, job>>

(* ------------------------------ bounds --------------------------------- *)
MaxUserLen == 2
MaxNameLen == 2
MaxFqdnPrefixLen == 3
MaxPathLen == 3
MaxKeyLen == 2
MaxChildren == 2

(* --------------------------- JavaScript values ------------------------- *)
Str(s) == [type |-> "string", chars |-> s]
Undefined == [type |-> "undefined", chars |-> <<>>]
Null == [type |-> "null", chars |-> <<>>]
FileObject == [type |-> "object", chars |-> <<>>]

Return(v) == [kind |-> "return", value |-> v]
Throw(e) == [kind |-> "throw", value |-> e]
Pending == [kind |-> "pending", value |-> Undefined]
NoValue == [kind |-> "none", value |-> Undefined]

\* all strings over alphabet A of length at most n
Strings(A, n) == UNION {[1..k -> A] : k \in 0..n}

DomainAlphabet == {".", "a", "A"}
PathAlphabet == {"/", "a"}
KeyAlphabet == {"a", "b"}

Usernames == Strings(DomainAlphabet, MaxUserLen)
Names == Strings(DomainAlphabet, MaxNameLen)
Paths == Strings(PathAlphabet, MaxPathLen)
Keys == Strings(KeyAlphabet, MaxKeyLen)
ChildValues == {1, 2}

\* process.env.ROOT_DOMAIN: a string, or undefined when the variable is unset
RootDomains == {Undefined, Str(<<"a">>), Str(<<"s", ".", "c">>)}

\* String(v) as performed by a template literal `${v}`
ToString(v) ==
  IF v.type = "undefined" THEN <<"u", "n", "d", "e", "f", "i", "n", "e", "d">>
  ELSE IF v.type = "null" THEN <<"n", "u", "l", "l">>
  ELSE v.chars

\* String.prototype.startsWith / endsWith / includes / substring
startsWith(s, p) == Len(p) <= Len(s) /\ SubSeq(s, 1, Len(p)) = p
endsWith(s, p) == Len(p) <= Len(s) /\ SubSeq(s, Len(s) - Len(p) + 1, Len(s)) = p
includes(s, p) == \E i \in 0..(Len(s) - Len(p)) : SubSeq(s, i + 1, i + Len(p)) = p
Clamp(i, n) == IF i < 0 THEN 0 ELSE IF i > n THEN n ELSE i
substring(s, from, to) ==
  LET a == Clamp(from, Len(s))
      b == Clamp(to, Len(s))
  IN IF a <= b THEN SubSeq(s, a + 1, b) ELSE SubSeq(s, b + 1, a)

\* JavaScript truthiness of the values used here
Truthy(v) == v.type = "object" \/ (v.type = "string" /\ v.chars # <<>>)

(* ------------------------------ safeRedirect --------------------------- *)
DEFAULT_REDIRECT == Str(<<"/">>)

\* a default parameter value applies when the argument is undefined
DefaultParam(v, d) == IF v.type = "undefined" THEN d ELSE v

\* faulty variant: the protocol-relative "//" prefix is not rejected
safeRedirect_NoDoubleSlash(to, defaultRedirectArg) ==
  LET defaultRedirect == DefaultParam(defaultRedirectArg, DEFAULT_REDIRECT)
  IN IF ~Truthy(to) \/ to.type # "string" THEN defaultRedirect
     ELSE IF ~startsWith(to.chars, <<"/">>) THEN defaultRedirect
     ELSE to

safeRedirect(to, defaultRedirectArg) ==
  LET defaultRedirect == DefaultParam(defaultRedirectArg, DEFAULT_REDIRECT)
  IN IF ~Truthy(to) \/ to.type # "string" THEN defaultRedirect
     ELSE IF ~startsWith(to.chars, <<"/">>) \/ startsWith(to.chars, <<"/", "/">>)
          THEN defaultRedirect
     ELSE to

(* ------------------------------ domain names --------------------------- *)
\* faulty variant: replace without the g flag drops only the first "."
cleanUsername_FirstOnly(username) ==
  IF \E i \in 1..Len(username) : username[i] = "."
  THEN LET i == CHOOSE i \in 1..Len(username) :
                  /\ username[i] = "."
                  /\ \A j \in 1..(i - 1) : username[j] # "."
       IN SubSeq(username, 1, i - 1) \o SubSeq(username, i + 1, Len(username))
  ELSE username

\* username.replace(/\./g, ''): scan left to right, dropping each "."
RECURSIVE cleanUsername(_)
cleanUsername(username) ==
  IF username = <<>> THEN <<>>
  ELSE IF Head(username) = "." THEN cleanUsername(Tail(username))
  ELSE <<Head(username)>> \o cleanUsername(Tail(username))

\* faulty variant: an unset root domain is rendered as the empty string
buildUserBaseDomain_EmptyWhenUnset(username) ==
  cleanUsername(username) \o <<".">> \o ROOT_DOMAIN.chars

buildUserBaseDomain(username) ==
  cleanUsername(username) \o <<".">> \o ToString(ROOT_DOMAIN)

\* faulty variant: an empty name is treated like a given name
buildDomain_DefinedCheck(username, name) ==
  IF name.type # "undefined"
  THEN ToString(name) \o <<".">> \o buildUserBaseDomain(username)
  ELSE buildUserBaseDomain(username)

\* faulty variant: the "." between name and base domain is left out
buildDomain_NoSeparator(username, name) ==
  IF Truthy(name) THEN ToString(name) \o buildUserBaseDomain(username)
  ELSE buildUserBaseDomain(username)

buildDomain(username, name) ==
  IF Truthy(name) THEN ToString(name) \o <<".">> \o buildUserBaseDomain(username)
  ELSE buildUserBaseDomain(username)

NotSubdomainError ==
  [type |-> "Error", chars |-> <<>>,
   message |-> "fqdn is not a subdomain of user's base domain"]

\* faulty variant: the cut keeps the "." that precedes the base domain
getSubdomainFromFqdn_KeepsDot(username, fqdn) ==
  LET baseDomain == buildUserBaseDomain(username)
  IN IF ~endsWith(fqdn, <<".">> \o baseDomain) THEN Throw(NotSubdomainError)
     ELSE Return(Str(substring(fqdn, 0, Len(fqdn) - Len(baseDomain))))

\* faulty variant: the suffix test leaves out the leading "."
getSubdomainFromFqdn_NoDotCheck(username, fqdn) ==
  LET baseDomain == buildUserBaseDomain(username)
  IN IF ~endsWith(fqdn, baseDomain) THEN Throw(NotSubdomainError)
     ELSE Return(Str(substring(fqdn, 0, Len(fqdn) - (Len(baseDomain) + 1))))

toLowerCase(s) == [i \in 1..Len(s) |-> IF s[i] = "A" THEN "a" ELSE s[i]]

\* faulty variant: the subdomain is lower-cased
getSubdomainFromFqdn_LowerCase(username, fqdn) ==
  LET baseDomain == buildUserBaseDomain(username)
  IN IF ~endsWith(fqdn, <<".">> \o baseDomain) THEN Throw(NotSubdomainError)
     ELSE Return(Str(toLowerCase(substring(fqdn, 0, Len(fqdn) - (Len(baseDomain) + 1)))))

\* faulty variant: the base domain is built from the uncleaned username
getSubdomainFromFqdn_RawUsername(username, fqdn) ==
  LET baseDomain == username \o <<".">> \o ToString(ROOT_DOMAIN)
  IN IF ~endsWith(fqdn, <<".">> \o baseDomain) THEN Throw(NotSubdomainError)
     ELSE Return(Str(substring(fqdn, 0, Len(fqdn) - (Len(baseDomain) + 1))))

getSubdomainFromFqdn(username, fqdn) ==
  LET baseDomain == buildUserBaseDomain(username)
  IN IF ~endsWith(fqdn, <<".">> \o baseDomain) THEN Throw(NotSubdomainError)
     ELSE Return(Str(substring(fqdn, 0, Len(fqdn) - (Len(baseDomain) + 1))))

(* --------------------- getChildrenValuesOfQueueName -------------------- *)
EmptyObject == [k \in {} |-> 0]

\* objects with at most MaxChildren own properties
Objects ==
  UNION {[D -> ChildValues] : D \in {X \in SUBSET Keys : Cardinality(X) <= MaxChildren}}

\* Object.keys(obj): the own keys in some fixed enumeration order
ObjectKeys(obj) ==
  LET n == Cardinality(DOMAIN obj)
  IN CHOOSE s \in [1..n -> DOMAIN obj] : \A i, j \in 1..n : s[i] = s[j] => i = j

\* { ...acc, [jobKey]: value }
SpreadWith(acc, jobKey, value) ==
  [k \in (DOMAIN acc) \cup {jobKey} |-> IF k = jobKey THEN value ELSE acc[k]]

\* keys.reduce((acc, jobKey) => ({ ...acc, [jobKey]: childrenValues[jobKey] }), acc)
RECURSIVE reduceKeys(_, _, _)
reduceKeys(keys, childrenValues, acc) ==
  IF keys = <<>> THEN acc
  ELSE reduceKeys(Tail(keys), childrenValues,
                  SpreadWith(acc, Head(keys), childrenValues[Head(keys)]))

\* faulty variant: keys are matched by prefix instead of by substring
filterChildrenValues_StartsWith(queueName, childrenValues) ==
  LET matches(jobKey) == startsWith(jobKey, queueName)
  IN reduceKeys(SelectSeq(ObjectKeys(childrenValues), matches), childrenValues, EmptyObject)

filterChildrenValues(queueName, childrenValues) ==
  LET matches(jobKey) == includes(jobKey, queueName)
  IN reduceKeys(SelectSeq(ObjectKeys(childrenValues), matches), childrenValues, EmptyObject)

(* ------------------------------- actions ------------------------------- *)
Init ==
  /\ ROOT_DOMAIN \in RootDomains
  /\ pc = "idle"
  /\ args = [op |-> "none"]
  /\ ret = NoValue
  /\ job = EmptyObject

CallSafeRedirect ==
  /\ pc = "idle"
  /\ \E to \in {Null, Undefined, FileObject} \cup {Str(p) : p \in Paths},
        d \in {Undefined} \cup {Str(p) : p \in Paths} :
       /\ args' = [op |-> "safeRedirect", to |-> to, defaultRedirect |-> d]
       /\ ret' = Return(safeRedirect(to, d))
  /\ pc' = "safeRedirect"
  /\ UNCHANGED <<ROOT_DOMAIN, job>>

CallCleanUsername ==
  /\ pc = "idle"
  /\ \E u \in Usernames :
       /\ args' = [op |-> "cleanUsername", username |-> u]
       /\ ret' = Return(Str(cleanUsername(u)))
  /\ pc' = "cleanUsername"
  /\ UNCHANGED <<ROOT_DOMAIN, job>>

CallBuildUserBaseDomain ==
  /\ pc = "idle"
  /\ \E u \in Usernames :
       /\ args' = [op |-> "buildUserBaseDomain", username |-> u]
       /\ ret' = Return(Str(buildUserBaseDomain(u)))
  /\ pc' = "buildUserBaseDomain"
  /\ UNCHANGED <<ROOT_DOMAIN, job>>

CallBuildDomain ==
  /\ pc = "idle"
  /\ \E u \in Usernames, n \in {Undefined} \cup {Str(x) : x \in Names} :
       /\ args' = [op |-> "buildDomain", username |-> u, name |-> n]
       /\ ret' = Return(Str(buildDomain(u, n)))
  /\ pc' = "buildDomain"
  /\ UNCHANGED <<ROOT_DOMAIN, job>>

\* the fqdn inputs: a short prefix, alone or followed by the root domain
FqdnInputs ==
  {p \o t : p \in Strings(DomainAlphabet, MaxFqdnPrefixLen),
            t \in {<<>>, ToString(ROOT_DOMAIN), <<".">> \o ToString(ROOT_DOMAIN)}}

CallGetSubdomainFromFqdn ==
  /\ pc = "idle"
  /\ \E u \in Usernames, f \in FqdnInputs :
       /\ args' = [op |-> "getSubdomainFromFqdn", username |-> u, fqdn |-> f]
       /\ ret' = getSubdomainFromFqdn(u, f)
  /\ pc' = "getSubdomainFromFqdn"
  /\ UNCHANGED <<ROOT_DOMAIN, job>>

\* the async function runs up to `await job.getChildrenValues()`
CallGetChildrenValuesOfQueueName ==
  /\ pc = "idle"
  /\ \E q \in Keys, M \in Objects :
       /\ args' = [op |-> "getChildrenValuesOfQueueName", queueName |-> q, job |-> M]
       /\ job' = M
  /\ ret' = Pending
  /\ pc' = "await getChildrenValues"
  /\ UNCHANGED ROOT_DOMAIN

\* the awaited promise settles with the job's children values; the rest of
\* the function body runs and the returned promise resolves
ResumeGetChildrenValuesOfQueueName ==
  /\ pc = "await getChildrenValues"
  /\ ret' = Return(filterChildrenValues(args.queueName, job))
  /\ pc' = "getChildrenValuesOfQueueName"
  /\ UNCHANGED <<ROOT_DOMAIN, args, job>>

\* the caller consumes the outcome; the call frame is gone
Complete ==
  /\ pc \notin {"idle", "await getChildrenValues"}
  /\ pc' = "idle"
  /\ args' = [op |-> "none"]
  /\ ret' = NoValue
  /\ job' = EmptyObject
  /\ UNCHANGED ROOT_DOMAIN

\* the shape of the state: the environment, the running call and its outcome
TypeOK ==
  /\ ROOT_DOMAIN \in RootDomains
  /\ pc \in {"idle", "safeRedirect", "cleanUsername", "buildUserBaseDomain", "buildDomain",
             "getSubdomainFromFqdn", "await getChildrenValues",
             "getChildrenValuesOfQueueName"}
  /\ args.op \in {"none", "safeRedirect", "cleanUsername", "buildUserBaseDomain",
                  "buildDomain", "getSubdomainFromFqdn", "getChildrenValuesOfQueueName"}
  /\ ret.kind \in {"none", "return", "throw", "pending"}
  /\ pc = "idle" <=> ret.kind = "none"
  /\ pc = "await getChildrenValues" <=> ret.kind = "pending"
  /\ job \in Objects

Next ==
  \/ CallSafeRedirect
  \/ CallCleanUsername
  \/ CallBuildUserBaseDomain
  \/ CallBuildDomain
  \/ CallGetSubdomainFromFqdn
  \/ CallGetChildrenValuesOfQueueName
  \/ ResumeGetChildrenValuesOfQueueName
  \/ Complete

Spec == Init /\ [][Next]_vars

(* ------------------------- auxiliary definitions ----------------------- *)
\* s is p followed by suf, for some p
HasSuffix(s, suf) == \E k \in 0..Len(s) : s = SubSeq(s, 1, k) \o suf

\* q occurs in k as a contiguous substring
Contains(k, q) == \E i \in 0..Len(k) : \E j \in i..Len(k) : SubSeq(k, i + 1, j) = q

CountDots(u) == Cardinality({i \in 1..Len(u) : u[i] = "."})

IsNotDot(c) == c # "."

RootText == IF ROOT_DOMAIN = Undefined
            THEN <<"u", "n", "d", "e", "f", "i", "n", "e", "d">>
            ELSE ROOT_DOMAIN.chars

InSubdomainCall == pc = "getSubdomainFromFqdn"

(* -------------------------------- claims ------------------------------- *)

\* C1 as stated: for every username u and every label n, the empty label
\* included, getSubdomainFromFqdn(u, buildDomain(u, n)) returns n.
C1_RoundTripAnyLabel ==
  InSubdomainCall =>
    \A n \in Names :
      args.fqdn = buildDomain(args.username, Str(n)) => ret = Return(Str(n))

\* C1 amended: for every username u and every non-empty label n,
\* getSubdomainFromFqdn(u, buildDomain(u, n)) returns exactly n and does not throw.
C1_RoundTripNonEmptyLabel ==
  InSubdomainCall =>
    \A n \in Names \ {<<>>} :
      args.fqdn = buildDomain(args.username, Str(n)) => ret = Return(Str(n))

C1_Witness ==
  /\ InSubdomainCall
  /\ args.username = <<".", "a">>
  /\ args.fqdn = buildDomain(<<".", "a">>, Str(<<"A">>))
  /\ ret = Return(Str(<<"A">>))

\* C2: whenever fqdn does not end with "." + base domain of u (the base domain
\* itself and another user's domain included), getSubdomainFromFqdn throws the
\* not-a-subdomain error and returns nothing; no other error is ever thrown.
C2_RejectsForeignFqdn ==
  InSubdomainCall =>
    /\ ~HasSuffix(args.fqdn, <<".">> \o cleanUsername(args.username) \o <<".">> \o RootText)
         => ret = Throw(NotSubdomainError)
    /\ ret.kind \in {"return", "throw"}
    /\ ret.kind = "throw" => ret.value = NotSubdomainError

C2_Witness ==
  /\ InSubdomainCall
  /\ args.username = <<"a">>
  /\ args.fqdn = <<"a", ".">> \o RootText
  /\ ret.kind = "throw"

C2_WitnessOtherUser ==
  /\ InSubdomainCall
  /\ args.username = <<"a">>
  /\ args.fqdn = <<"a", ".", "A", ".">> \o RootText
  /\ ret.kind = "throw"

\* C3: whenever fqdn ends with "." + base domain of u, getSubdomainFromFqdn
\* returns the string s with s + "." + base domain = fqdn, unchanged in case.
C3_ReturnsExactPrefix ==
  InSubdomainCall =>
    LET base == cleanUsername(args.username) \o <<".">> \o RootText
    IN HasSuffix(args.fqdn, <<".">> \o base) =>
         /\ ret.kind = "return"
         /\ ret.value.type = "string"
         /\ ret.value.chars \o <<".">> \o base = args.fqdn

C3_Witness ==
  /\ InSubdomainCall
  /\ args.username = <<"a">>
  /\ args.fqdn = <<"A", ".", "a", ".">> \o RootText
  /\ ret = Return(Str(<<"A">>))

\* C4: buildDomain(u, n) is n + "." + base domain when n is given and
\* non-empty, and the base domain when n is omitted or empty.
C4_BuildDomainShape ==
  pc = "buildDomain" =>
    LET base == cleanUsername(args.username) \o <<".">> \o RootText
        n == args.name
    IN ret = Return(Str(IF n.type = "string" /\ Len(n.chars) > 0
                        THEN n.chars \o <<".">> \o base
                        ELSE base))

C4_Witness ==
  /\ pc = "buildDomain"
  /\ args.name = Str(<<"A", "a">>)
  /\ args.username = <<"a", ".">>
  /\ ret = Return(Str(<<"A", "a", ".", "a", ".">> \o RootText))

C4_WitnessEmptyName ==
  /\ pc = "buildDomain"
  /\ args.name = Str(<<>>)
  /\ args.username = <<"a">>
  /\ ret = Return(Str(<<"a", ".">> \o RootText))

\* C5: cleanUsername(u) never fails, has no "." in it, has length
\* len(u) - count(".", u), and is u's other characters in their order.
C5_CleanUsername ==
  pc = "cleanUsername" =>
    /\ ret.kind = "return"
    /\ ret.value.type = "string"
    /\ \A i \in 1..Len(ret.value.chars) : ret.value.chars[i] # "."
    /\ Len(ret.value.chars) = Len(args.username) - CountDots(args.username)
    /\ ret.value.chars = SelectSeq(args.username, IsNotDot)

C5_Witness ==
  /\ pc = "cleanUsername"
  /\ args.username = <<".", ".">>
  /\ ret = Return(Str(<<>>))

\* C6: buildUserBaseDomain(u) never raises and returns cleanUsername(u) + "."
\* + root domain, with the text "undefined" for an absent root domain; none of
\* cleanUsername, buildUserBaseDomain and buildDomain ever raises.
C6_BaseDomainTotal ==
  /\ pc = "buildUserBaseDomain" =>
       ret = Return(Str(SelectSeq(args.username, IsNotDot) \o <<".">> \o RootText))
  /\ pc \in {"cleanUsername", "buildUserBaseDomain", "buildDomain"} =>
       ret.kind = "return"

C6_Witness ==
  /\ pc = "buildUserBaseDomain"
  /\ ROOT_DOMAIN = Undefined
  /\ args.username = <<"a", ".">>
  /\ ret = Return(Str(<<"a", ".", "u", "n", "d", "e", "f", "i", "n", "e", "d">>))

\* C7: two usernames with the same cleanUsername have the same base domain,
\* and getSubdomainFromFqdn for one of them returns n on every domain built
\* for the other with a non-empty name n.
C7_CollidingUsernames ==
  InSubdomainCall =>
    \A u1 \in Usernames :
      cleanUsername(u1) = cleanUsername(args.username) =>
        /\ buildUserBaseDomain(u1) = buildUserBaseDomain(args.username)
        /\ \A n \in Names \ {<<>>} :
             args.fqdn = buildDomain(u1, Str(n)) => ret = Return(Str(n))

C7_Witness ==
  /\ InSubdomainCall
  /\ args.username = <<"a", ".">>
  /\ args.fqdn = buildDomain(<<".", "a">>, Str(<<"a">>))
  /\ ret = Return(Str(<<"a">>))

\* C8: safeRedirect returns `to` when `to` is a non-empty string that starts
\* with "/" and not with "//", and otherwise the default redirect, which is
\* "/" when none is given.
C8_SafeRedirect ==
  pc = "safeRedirect" =>
    LET to == args.to
        d == IF args.defaultRedirect = Undefined THEN Str(<<"/">>)
             ELSE args.defaultRedirect
        safe == /\ to.type = "string"
                /\ Len(to.chars) >= 1
                /\ to.chars[1] = "/"
                /\ ~(Len(to.chars) >= 2 /\ to.chars[2] = "/")
    IN /\ ret = Return(IF safe THEN to ELSE d)
       /\ ret.value \in {to, d}

C8_Witness ==
  /\ pc = "safeRedirect"
  /\ args.to = Str(<<"/", "/", "a">>)
  /\ args.defaultRedirect = Str(<<"/", "a">>)
  /\ ret = Return(Str(<<"/", "a">>))

C8_WitnessKept ==
  /\ pc = "safeRedirect"
  /\ args.to = Str(<<"/", "a", "/">>)
  /\ args.defaultRedirect = Undefined
  /\ ret = Return(Str(<<"/", "a", "/">>))

\* C9: getChildrenValuesOfQueueName resolves to exactly the entries of the
\* job's children values whose key contains queueName, with the same values,
\* and leaves the job's children values as they were.
C9_FilteredChildren ==
  pc = "getChildrenValuesOfQueueName" =>
    /\ ret.kind = "return"
    /\ DOMAIN ret.value = {k \in DOMAIN args.job : Contains(k, args.queueName)}
    /\ \A k \in DOMAIN ret.value : ret.value[k] = args.job[k]
    /\ job = args.job

C9_Witness ==
  /\ pc = "getChildrenValuesOfQueueName"
  /\ args.queueName = <<"b">>
  /\ DOMAIN args.job = {<<"a", "b">>, <<"a">>}
  /\ DOMAIN ret.value = {<<"a", "b">>}

\* C10 as stated: whenever getSubdomainFromFqdn(u, fqdn) succeeds with s,
\* the empty s included, buildDomain(u, s) = fqdn.
C10_InverseRoundTripAny ==
  InSubdomainCall /\ ret.kind = "return" =>
    buildDomain(args.username, ret.value) = args.fqdn

\* C10 amended: whenever getSubdomainFromFqdn(u, fqdn) succeeds with a
\* non-empty s, buildDomain(u, s) = fqdn.
C10_InverseRoundTripNonEmpty ==
  InSubdomainCall /\ ret.kind = "return" /\ ret.value.chars # <<>> =>
    buildDomain(args.username, ret.value) = args.fqdn

C10_Witness ==
  /\ InSubdomainCall
  /\ args.username = <<"A">>
  /\ ret = Return(Str(<<"a">>))
  /\ buildDomain(args.username, ret.value) = args.fqdn

====
